---------------------------- MODULE Spec2Model ----------------------------
(***************************************************************************)
(* The drift-monitoring flow of evidently_flow.py: prep_db, prep_data,     *)
(* calculate_metrics, save_metrics_to_db, create_metrics and monitor, over *)
(* a PostgreSQL server holding the database 'test' and its table metrics.  *)
(*                                                                         *)
(* Time is counted in half days; 0 is 2023-02-01 00:00.  A DataFrame is a  *)
(* set of rows, a float is an abstract value of a small set.  The drift    *)
(* library, the trained model, the file readers and the database server    *)
(* are the environment: what they return or raise is chosen with \E.       *)
(***************************************************************************)
EXTENDS Integers, Sequences, FiniteSets, TLC

\* ------------------------------------------------------------------ bounds
MaxRows == 1          \* rows a direct caller may have put in metrics
MaxFrameRows == 1     \* rows of a DataFrame
MaxTs == 2            \* pickup timestamps range over 0..MaxTs half days

\* ------------------------------------------------------- program constants
DayLen == 2                       \* datetime.timedelta(days=1), in half days
NumIterations == 27               \* range(0, 27)
FirstWindowStart == 0             \* datetime.datetime(2023, 2, 1)
InitialStart == 0 - 365 * DayLen  \* datetime.datetime(2022, 2, 1, 0, 0)
InitialEnd == InitialStart + DayLen  \* datetime.datetime(2022, 2, 2, 0, 0)

\* ------------------------------------------------------------------ values
NoError == "none"
PsycopgError == "psycopg.Error"
AttributeError == "AttributeError"
TypeError == "TypeError"
OSError == "OSError"
LibraryError == "LibraryError"
\* errors raised by the environment (server, file system, model, drift library)
EnvErrors == {PsycopgError, OSError, LibraryError}

Range(s) == {s[j] : j \in 1..Len(s)}
IsPrefix(s, t) == Len(s) <= Len(t) /\ \A j \in 1..Len(s) : s[j] = t[j]

Timestamps == 0..MaxTs
Feats == {"NaN", "1"}
Rows == [ts : Timestamps, feat : Feats]
RowSets == {F \in SUBSET Rows : Cardinality(F) <= MaxFrameRows}

\* the objects a local variable of the flow can be bound to
Unset == [kind |-> "unset", rows |-> {}, coef |-> 0]
Ellipsis == [kind |-> "Ellipsis", rows |-> {}, coef |-> 0]
DataFrame(F) == [kind |-> "DataFrame", rows |-> F, coef |-> 0]
Model(c) == [kind |-> "Model", rows |-> {}, coef |-> c]

RawFrames == {DataFrame(F) : F \in RowSets}
CallFrames == {DataFrame({}), DataFrame({[ts |-> 0, feat |-> "NaN"]}), DataFrame({[ts |-> 0, feat |-> "1"]})}
RefFrames == {DataFrame({[ts |-> 0, feat |-> f]}) : f \in Feats}
Models == {Model(c) : c \in {1, 2}}

Dates == {FirstWindowStart, FirstWindowStart + DayLen}

\* report.as_dict(): one result block per requested metric, in request order
MakeReport(d, n, s) ==
  [metrics |-> << [result |-> [drift_score |-> d]],
                  [result |-> [number_of_drifted_columns |-> n]],
                  [result |-> [current |-> [share_of_missing_values |-> s],
                               reference |-> [share_of_missing_values |-> 30]]] >>]
\* the three scalars of a report: (drift score, drifted columns, missing share)
MetricTriples == {<<10, 1, 20>>, <<11, 0, 21>>}
Reports == {MakeReport(m[1], m[2], m[3]) : m \in MetricTriples}
NoReport == [metrics |-> <<>>]

\* ---------------------------------------------------------------- database
NoTable == [present |-> FALSE, rows |-> <<>>]
SelectDatabase == "SELECT 1 FROM pg_database WHERE datname='test'"
CreateDatabase == "CREATE DATABASE test"
CreateTable == "DROP TABLE IF EXISTS metrics; CREATE TABLE metrics"
Insert == "INSERT INTO metrics"
MetricsColumns == <<"timestamp", "prediction_drift", "num_drifted_columns", "share_missing_values">>

VARIABLES databases, tbl, call,
          pc, raised, trace, k, start_date, end_date,
          raw_data, ref_data, model, loaded, conn, cursor, metric_calls

vars == <<databases, tbl, call, pc, raised, trace, k, start_date,
          end_date, raw_data, ref_data, model, loaded, conn, cursor, metric_calls>>
server == <<databases, tbl>>
flow == <<pc, raised, trace, k, start_date, end_date, raw_data, ref_data, model,
          loaded, conn, cursor, metric_calls>>

\* ------------------------------------------------------------------ prep_db
\* except psycopg.Error around the connection to 'test': print, raise
inner_except(e) == e

\* a handler that prints and does not re-raise
outer_except_swallow(e) == NoError

\* except psycopg.Error around the server connection: print, raise
outer_except(e) == e

\* the existence test dropped: CREATE DATABASE on every run
NeedCreateDatabaseAlways(dbs) == TRUE

\* if len(res.fetchall()) == 0
NeedCreateDatabase(dbs) == "test" \notin dbs

\* CREATE TABLE IF NOT EXISTS without the DROP: an existing table keeps its rows
create_table_query_keep(t) == IF t.present THEN t ELSE [present |-> TRUE, rows |-> <<>>]

\* DROP TABLE IF EXISTS metrics; CREATE TABLE metrics(...): a fresh, empty table
create_table_query(t) == [present |-> TRUE, rows |-> <<>>]

\* where the server may refuse: a connection or a statement
PrepDbFaults == {"none", "connect_server", "select", "create_database",
                 "connect_test", "create_table"}

\* prep_db on a server holding the databases dbs and the table t.  The
\* statements of create_table_query are sent in one execute and the server
\* runs them as one unit: a failure leaves the table as it was.
prep_db(dbs, t, fault) ==
  LET out(d, tb, st, pr, e) ==
        [databases |-> d, tbl |-> tb, stmts |-> st, printed |-> pr, raised |-> e]
      need == NeedCreateDatabase(dbs)
      s1 == <<SelectDatabase>>
      s2 == IF need THEN Append(s1, CreateDatabase) ELSE s1
      dbs2 == IF need THEN dbs \cup {"test"} ELSE dbs
      outer == <<"Failed to connect to PostgreSQL">>
      both == <<"Failed to connect to 'test' database", "Failed to connect to PostgreSQL">>
      thrown == IF inner_except(PsycopgError) = NoError THEN NoError
                ELSE outer_except(inner_except(PsycopgError))
  IN IF fault = "connect_server"
       THEN out(dbs, t, <<>>, outer, outer_except(PsycopgError))
     ELSE IF fault = "select"
       THEN out(dbs, t, s1, outer, outer_except(PsycopgError))
     ELSE IF need /\ (fault = "create_database" \/ "test" \in dbs)
       THEN out(dbs, t, s2, outer, outer_except(PsycopgError))
     ELSE IF fault = "connect_test" \/ "test" \notin dbs2
       THEN out(dbs2, t, s2, both, thrown)
     ELSE IF fault = "create_table"
       THEN out(dbs2, t, Append(s2, CreateTable), both, thrown)
     ELSE out(dbs2, create_table_query(t), Append(s2, CreateTable), <<>>, NoError)

\* ---------------------------------------------------------------- prep_data
Files == [reference : RefFrames, model : Models, raw : RawFrames]
PrepDataFaults == {"none", "reference", "model", "raw"}
NothingLoaded == [ref_data |-> Unset, model |-> Unset, raw_data |-> Unset]

\* reads the three artifacts and returns (ref_data, model, raw_data); an error
\* of a reader propagates
prep_data(files, fault) ==
  IF fault # "none"
    THEN [raised |-> OSError, ret |-> NothingLoaded]
    ELSE [raised |-> NoError,
          ret |-> [ref_data |-> files.reference, model |-> files.model,
                   raw_data |-> files.raw]]

\* -------------------------------------------------------- calculate_metrics
\* what the model and the drift library do on one call
Libs == {[fail |-> "none", report |-> r] : r \in Reports}
          \cup {[fail |-> f, report |-> NoReport] : f \in {"predict", "report"}}

\* .fillna(0)
fillna(v) == IF v = "NaN" THEN 0 ELSE 1

\* current_data["prediction"] = model.predict(current_data[NUMERICAL + CATEGORICAL].fillna(0))
with_prediction(m, F) ==
  {[ts |-> r.ts, feat |-> r.feat, prediction |-> m.coef * fillna(r.feat)] : r \in F}

\* create_report: the as_dict() of the library's report
create_report(cur, ref, lib) == lib.report

\* the share read from the reference block, and the last two values swapped
calculate_metrics_ret_swapped(rep) ==
  << rep.metrics[1].result.drift_score,
     rep.metrics[3].result.reference.share_of_missing_values,
     rep.metrics[2].result.number_of_drifted_columns >>

\* the three scalars read out of the report, by position
calculate_metrics_ret(rep) ==
  << rep.metrics[1].result.drift_score,
     rep.metrics[2].result.number_of_drifted_columns,
     rep.metrics[3].result.current.share_of_missing_values >>

calculate_metrics(cur, m, ref, lib) ==
  LET out(e, c, rep, ret) ==
        [raised |-> e, current_data |-> c, report |-> rep, ret |-> ret]
      cur2 == [cur EXCEPT !.rows = with_prediction(m, cur.rows)]
  IN IF m.kind # "Model" THEN out(AttributeError, cur, NoReport, <<>>)
     ELSE IF cur.kind # "DataFrame" THEN out(TypeError, cur, NoReport, <<>>)
     ELSE IF lib.fail = "predict" THEN out(LibraryError, cur, NoReport, <<>>)
     ELSE IF lib.fail = "report" \/ ref.kind # "DataFrame"
       THEN out(LibraryError, cur2, NoReport, <<>>)
     ELSE out(NoError, cur2, create_report(cur2, ref, lib),
              calculate_metrics_ret(create_report(cur2, ref, lib)))

\* ------------------------------------------------------- save_metrics_to_db
\* the two middle parameters in the wrong order
save_metrics_params_swapped(date, prediction_drift, num_drifted_cols, share_missing_vals) ==
  <<date, num_drifted_cols, prediction_drift, share_missing_vals>>

\* the parameter tuple handed to cursor.execute
save_metrics_params(date, prediction_drift, num_drifted_cols, share_missing_vals) ==
  <<date, prediction_drift, num_drifted_cols, share_missing_vals>>

\* the server runs INSERT INTO metrics(columns) VALUES (%s, %s, %s, %s): the
\* parameters are bound to the listed columns by position; autocommit
ExecuteInsert(t, params, fault) ==
  IF fault \/ ~t.present
    THEN [tbl |-> t, raised |-> PsycopgError]
    ELSE [tbl |-> [t EXCEPT !.rows = Append(@,
                     [timestamp |-> params[1], prediction_drift |-> params[2],
                      num_drifted_columns |-> params[3],
                      share_missing_values |-> params[4]])],
          raised |-> NoError]

save_metrics_to_db(t, date, prediction_drift, num_drifted_cols, share_missing_vals, fault) ==
  LET p == save_metrics_params(date, prediction_drift, num_drifted_cols, share_missing_vals)
      r == ExecuteInsert(t, p, fault)
  IN [tbl |-> r.tbl, raised |-> r.raised,
      stmts |-> << [sql |-> Insert, columns |-> MetricsColumns, params |-> p] >>]

\* ----------------------------------------------------------- create_metrics
create_metrics(t, date, ref, m, cur, lib, fault) ==
  LET c == calculate_metrics(cur, m, ref, lib)
      s == save_metrics_to_db(t, date, c.ret[1], c.ret[2], c.ret[3], fault)
  IN IF c.raised # NoError
       THEN [tbl |-> t, raised |-> c.raised, stmts |-> <<>>,
             steps |-> <<"calculate_metrics">>, report |-> c.report]
       ELSE [tbl |-> s.tbl, raised |-> s.raised, stmts |-> s.stmts,
             steps |-> <<"calculate_metrics", "save_metrics_to_db">>,
             report |-> c.report]

\* ------------------------------------------------------------------ monitor
\* the loader called before the database preparer
AfterStepLoaderFirst(step) ==
  CASE step = "start" -> "prep_data"
    [] step = "prep_data" -> "prep_db"
    [] step = "prep_db" -> "connect"
    [] OTHER -> "loop"

\* the order of the steps of monitor() up to the loop
AfterStep(step) ==
  CASE step = "start" -> "prep_db"
    [] step = "prep_db" -> "prep_data"
    [] step = "prep_data" -> "connect"
    [] OTHER -> "loop"

\* an exception caught per iteration: the loop goes on
monitor_except_continue(e) == "loop"

\* an exception raised inside the two with blocks: a psycopg.Error is printed
\* and re-raised, any other passes the except clause; both leave monitor()
monitor_except(e) == "failed"

\* raw_data[(raw_data.lpep_pickup_datetime >= start_date)
\*          & (raw_data.lpep_pickup_datetime < end_date)]
Window(F, from, to) == {r \in F : r.ts >= from /\ r.ts < to}

Init ==
  /\ databases = {}
  /\ tbl = NoTable
  /\ call = [fn |-> "none"]
  /\ pc = "idle"
  /\ raised = NoError
  /\ trace = <<>>
  /\ k = 0
  /\ start_date = InitialStart
  /\ end_date = InitialEnd
  /\ raw_data = Unset
  /\ ref_data = Unset
  /\ model = Unset
  /\ loaded = NothingLoaded
  /\ conn = "none"
  /\ cursor = "none"
  /\ metric_calls = <<>>

\* ---- the functions called on their own, as the tests call them
CallPrepDb ==
  /\ pc = "idle"
  /\ \E fault \in PrepDbFaults :
       LET r == prep_db(databases, tbl, fault)
       IN /\ databases' = r.databases
          /\ tbl' = r.tbl
          /\ call' = [fn |-> "prep_db", fault |-> fault, stmts |-> r.stmts,
                      printed |-> r.printed, raised |-> r.raised]
  /\ UNCHANGED flow

CallPrepData ==
  /\ pc = "idle"
  /\ \E files \in Files, fault \in PrepDataFaults :
       LET r == prep_data(files, fault)
       IN call' = [fn |-> "prep_data", files |-> files, raised |-> r.raised,
                   ret |-> r.ret]
  /\ UNCHANGED <<server, flow>>

CallCalculateMetrics ==
  /\ pc = "idle"
  /\ \E cur \in CallFrames, m \in Models, ref \in RefFrames, lib \in Libs :
       LET r == calculate_metrics(cur, m, ref, lib)
       IN call' = [fn |-> "calculate_metrics", report |-> r.report,
                   current_data |-> r.current_data, raised |-> r.raised,
                   ret |-> r.ret]
  /\ UNCHANGED <<server, flow>>

\* the cursor handed in is one on the database 'test'
CallSaveMetrics ==
  /\ pc = "idle"
  /\ "test" \in databases
  /\ Len(tbl.rows) < MaxRows
  /\ \E date \in Dates, m \in MetricTriples, fault \in BOOLEAN :
       LET r == save_metrics_to_db(tbl, date, m[1], m[2], m[3], fault)
       IN /\ tbl' = r.tbl
          /\ call' = [fn |-> "save_metrics_to_db",
                      args |-> [date |-> date, prediction_drift |-> m[1],
                                num_drifted_cols |-> m[2],
                                share_missing_vals |-> m[3]],
                      stmts |-> r.stmts, raised |-> r.raised]
  /\ UNCHANGED <<databases, flow>>

CallCreateMetrics ==
  /\ pc = "idle"
  /\ "test" \in databases
  /\ Len(tbl.rows) < MaxRows
  /\ \E date \in Dates, cur \in CallFrames, m \in Models, ref \in RefFrames,
        lib \in Libs, fault \in BOOLEAN :
       LET r == create_metrics(tbl, date, ref, m, cur, lib, fault)
       IN /\ tbl' = r.tbl
          /\ call' = [fn |-> "create_metrics", start_date |-> date,
                      report |-> r.report, steps |-> r.steps,
                      stmts |-> r.stmts, raised |-> r.raised]
  /\ UNCHANGED <<databases, flow>>

\* ---- monitor(), step by step
MonitorStart ==
  /\ pc = "idle"
  /\ call' = [fn |-> "monitor"]
  /\ start_date' = InitialStart
  /\ end_date' = InitialEnd
  /\ pc' = AfterStep("start")
  /\ UNCHANGED <<server, raised, trace, k, raw_data, ref_data, model, loaded,
                 conn, cursor, metric_calls>>

MonitorPrepDb ==
  /\ pc = "prep_db"
  /\ \E fault \in PrepDbFaults :
       LET r == prep_db(databases, tbl, fault)
       IN /\ databases' = r.databases
          /\ tbl' = r.tbl
          /\ raised' = r.raised
          /\ IF r.raised = NoError
               THEN pc' = AfterStep("prep_db") /\ trace' = Append(trace, "prep_db")
               ELSE pc' = "failed" /\ trace' = trace
  /\ UNCHANGED <<call, k, start_date, end_date, raw_data, ref_data, model,
                 loaded, conn, cursor, metric_calls>>

MonitorPrepData ==
  /\ pc = "prep_data"
  /\ \E files \in Files, fault \in PrepDataFaults :
       LET r == prep_data(files, fault)
       IN /\ raised' = r.raised
          /\ IF r.raised = NoError
               THEN /\ loaded' = r.ret
                    /\ ref_data' = r.ret.ref_data
                    /\ model' = r.ret.model
                    /\ raw_data' = r.ret.raw_data
                    /\ pc' = AfterStep("prep_data")
                    /\ trace' = Append(trace, "prep_data")
               ELSE /\ pc' = "failed"
                    /\ UNCHANGED <<loaded, ref_data, model, raw_data, trace>>
  /\ UNCHANGED <<server, call, k, start_date, end_date, conn, cursor, metric_calls>>

\* with psycopg.connect(...) as conn, conn.cursor() as cursor, and the
\* assignments before the loop
MonitorConnect ==
  /\ pc = "connect"
  /\ \E fault \in BOOLEAN :
       IF fault \/ "test" \notin databases
         THEN /\ raised' = PsycopgError
              /\ pc' = monitor_except(PsycopgError)
              /\ UNCHANGED <<trace, start_date, end_date, raw_data, ref_data,
                             model, conn, cursor>>
         ELSE /\ conn' = "open"
              /\ cursor' = "open"
              /\ start_date' = FirstWindowStart
              /\ end_date' = FirstWindowStart + DayLen
              /\ raw_data' = Ellipsis
              /\ ref_data' = Ellipsis
              /\ model' = Ellipsis
              /\ pc' = AfterStep("connect")
              /\ trace' = Append(trace, "connect")
              /\ UNCHANGED raised
  /\ UNCHANGED <<server, call, k, loaded, metric_calls>>

\* one pass of for _ in range(0, 27), or the end of the loop
MonitorLoop ==
  /\ pc = "loop"
  /\ IF k = NumIterations
       THEN /\ pc' = "done"
            /\ conn' = "closed"
            /\ cursor' = "closed"
            /\ UNCHANGED <<server, raised, trace, k, start_date, end_date,
                           metric_calls>>
     ELSE IF raw_data.kind # "DataFrame"
       THEN /\ k' = k + 1
            /\ raised' = AttributeError
            /\ pc' = monitor_except(AttributeError)
            /\ conn' = IF pc' = "failed" THEN "closed" ELSE conn
            /\ cursor' = IF pc' = "failed" THEN "closed" ELSE cursor
            /\ UNCHANGED <<server, trace, start_date, end_date, metric_calls>>
     ELSE \E lib \in Libs, fault \in BOOLEAN :
            LET current_data == DataFrame(Window(raw_data.rows, start_date, end_date))
                r == create_metrics(tbl, start_date, ref_data, model,
                                    current_data, lib, fault)
            IN /\ k' = k + 1
               /\ metric_calls' = Append(metric_calls,
                    [start_date |-> start_date, current_data |-> current_data,
                     ref_data |-> ref_data, model |-> model])
               /\ tbl' = r.tbl
               /\ raised' = r.raised
               /\ UNCHANGED databases
               /\ IF r.raised # NoError
                    THEN /\ pc' = monitor_except(r.raised)
                         /\ conn' = IF pc' = "failed" THEN "closed" ELSE conn
                         /\ cursor' = IF pc' = "failed" THEN "closed" ELSE cursor
                         /\ trace' = trace \o r.steps
                         /\ UNCHANGED <<start_date, end_date>>
                    ELSE /\ start_date' = start_date + DayLen
                         /\ end_date' = end_date + DayLen
                         /\ trace' = trace \o r.steps \o <<"advance", "sleep">>
                         /\ UNCHANGED <<pc, conn, cursor>>
  /\ UNCHANGED <<call, raw_data, ref_data, model, loaded>>

Next ==
  \/ CallPrepDb
  \/ CallPrepData
  \/ CallCalculateMetrics
  \/ CallSaveMetrics
  \/ CallCreateMetrics
  \/ MonitorStart
  \/ MonitorPrepDb
  \/ MonitorPrepData
  \/ MonitorConnect
  \/ MonitorLoop

Spec == Init /\ [][Next]_vars

\* =================================================================== claims
RunEnded == pc \in {"done", "failed"}
PrepDbDone(tr) == "prep_db" \in Range(tr)
EmptyTable == [present |-> TRUE, rows |-> <<>>]
\* iterations of the loop that ran to their end
Completed(p, n) == IF p = "failed" /\ n >= 1 THEN n - 1 ELSE n
StartOf(j) == FirstWindowStart + (j - 1) * DayLen
\* the batch the j-th started iteration handed to create_metrics, if any
BatchOf(j) == IF j <= Len(metric_calls) THEN metric_calls[j].current_data.rows ELSE {}

\* C1: a run of monitor() that no error of the environment (server, files,
\* model, drift library) stops ends with exactly 27 calls of create_metrics,
\* whatever rows the raw dataset holds.
C1_ExactlyNCalls ==
  (RunEnded /\ raised \notin EnvErrors) => Len(metric_calls) = NumIterations

\* C2: every iteration the loop has started has the half-open window as its
\* batch: a row of the loaded raw dataset stamped window_start is in it, a row
\* stamped window_end is not, and no row is in the batches of two iterations.
C2_HalfOpenWindow ==
  \A j \in 1..k : \A r \in loaded.raw_data.rows :
    /\ r.ts = StartOf(j) => r \in BatchOf(j)
    /\ r.ts = StartOf(j) + DayLen => r \notin BatchOf(j)
    /\ \A i \in 1..k : (i # j /\ r \in BatchOf(i)) => r \notin BatchOf(j)

\* C3: a prep_db that meets a connection error (to the server or to 'test')
\* raises it to its caller and has executed no DROP/CREATE TABLE statement; a
\* monitor() whose prep_db did not complete has ended failed with that error.
C3_PrepDbReraises ==
  /\ (call.fn = "prep_db" /\ call.fault \in {"connect_server", "connect_test"})
       => /\ call.raised = PsycopgError
          /\ CreateTable \notin Range(call.stmts)
          /\ call.printed # <<>>
  /\ (call.fn = "monitor" /\ pc # "prep_db" /\ ~PrepDbDone(trace))
       => pc = "failed" /\ raised = PsycopgError

C3_Witness ==
  /\ call.fn = "prep_db"
  /\ call.fault = "connect_test"
  /\ call.raised = PsycopgError
  /\ call.stmts = <<SelectDatabase, CreateDatabase>>

\* C4: a call of save_metrics_to_db issues exactly one statement, an INSERT
\* into the columns (timestamp, prediction_drift, num_drifted_columns,
\* share_missing_values) whose parameters are the call's arguments (date,
\* prediction_drift, num_drifted_cols, share_missing_vals) in that order; the
\* row it adds carries each argument in its column.
C4_OneInsertInOrder ==
  call.fn = "save_metrics_to_db" =>
    /\ Len(call.stmts) = 1
    /\ call.stmts[1].sql = Insert
    /\ call.stmts[1].columns = MetricsColumns
    /\ call.stmts[1].params = <<call.args.date, call.args.prediction_drift,
                                call.args.num_drifted_cols,
                                call.args.share_missing_vals>>
    /\ call.raised = NoError =>
         /\ Len(tbl.rows) >= 1
         /\ tbl.rows[Len(tbl.rows)] =
              [timestamp |-> call.args.date,
               prediction_drift |-> call.args.prediction_drift,
               num_drifted_columns |-> call.args.num_drifted_cols,
               share_missing_values |-> call.args.share_missing_vals]

C4_Witness ==
  /\ call.fn = "save_metrics_to_db"
  /\ call.raised = NoError
  /\ call.args.prediction_drift = 11
  /\ Len(tbl.rows) = 1

\* C5: when the report holds drift_score d at index 0, number_of_drifted_columns
\* n at index 1 and the current share_of_missing_values s at index 2,
\* calculate_metrics returns (d, n, s).
C5_ReturnsReportScalars ==
  (call.fn = "calculate_metrics" /\ call.raised = NoError) =>
    \E m \in MetricTriples :
      /\ call.report = MakeReport(m[1], m[2], m[3])
      /\ call.ret = m

C5_Witness ==
  /\ call.fn = "calculate_metrics"
  /\ call.raised = NoError
  /\ call.ret = <<10, 1, 20>>

C7_PrepDbIdempotent ==
  [][ LET direct == pc = "idle" /\ pc' = "idle" /\ call'.fn = "prep_db"
          inRun == pc = "prep_db"
          again == prep_db(databases', tbl', "none")
      IN /\ ((direct /\ call'.raised = NoError) \/ (inRun /\ raised' = NoError)) =>
              /\ databases' = {"test"}
              /\ tbl' = EmptyTable
              /\ again.raised = NoError
              /\ again.databases = databases'
              /\ again.tbl = tbl'
              /\ CreateDatabase \notin Range(again.stmts)
         /\ direct =>
              (CreateDatabase \in Range(call'.stmts) => "test" \notin databases)
         /\ (direct /\ call'.fault \notin {"connect_server", "select"}) =>
              ("test" \notin databases => CreateDatabase \in Range(call'.stmts))
    ]_vars

C7_Witness ==
  /\ call.fn = "prep_db"
  /\ call.raised = NoError
  /\ call.stmts = <<SelectDatabase, CreateTable>>
  /\ databases = {"test"}
  /\ tbl = EmptyTable

C10_LoaderValuesUsed ==
  (pc \in {"loop", "done"} \/ k >= 1) =>
    /\ raw_data = loaded.raw_data
    /\ ref_data = loaded.ref_data
    /\ model = loaded.model
    /\ \A j \in 1..Len(metric_calls) :
         /\ metric_calls[j].ref_data = loaded.ref_data
         /\ metric_calls[j].model = loaded.model

==========================================================================
